---- MODULE Spec2Model ----
(***************************************************************************)
(* A model of assert-json-diff 1.1.0: the recursive JSON diff of           *)
(* src/diff.rs and the two entry points of src/lib.rs that run it.         *)
(*                                                                         *)
(* diff is a pure function of (lhs, rhs, mode).  In Strict mode the keys   *)
(* of an array or object pair are collected into a std HashSet and visited *)
(* in that set's iteration order, which the language leaves unspecified,   *)
(* so the operators below return the SET of difference lists a call can    *)
(* produce, and the entry point picks one of them.                         *)
(***************************************************************************)
EXTENDS Integers, Sequences, FiniteSets, TLC

VARIABLES lhs, rhs, mode, acc, result, message, panic, pc

vars == <<lhs, rhs, mode, acc, result, message, panic, pc>>

(***************************************************************************)
(* Bounds of the model.                                                    *)
(***************************************************************************)
\* The longest array among the inputs.
MaxLen == 2

\* The field names of the inputs, in the order serde_json's Map (a BTreeMap)
\* iterates them.
KeyOrder == <<"a", "b", "country", "data", "id", "name", "users">>

\* The field names the generated objects are built from.
Keys == {"a", "b"}

(***************************************************************************)
(* serde_json::Value.  Every value is a record of the same shape, the      *)
(* fields a kind does not use holding a fixed filler, so that equality of  *)
(* records is Value's derived PartialEq: same variant, equal contents.  A  *)
(* number keeps the variant of serde_json's N (PosInt or Float) beside its *)
(* magnitude, and an object is a function from its key set.                *)
(***************************************************************************)
Null == [kind |-> "null", b |-> FALSE, nty |-> "", n |-> 0, s |-> "",
         items |-> <<>>, fields |-> <<>>]

Bool(x) == [Null EXCEPT !.kind = "bool", !.b = x]

PosInt(x) == [Null EXCEPT !.kind = "number", !.nty = "PosInt", !.n = x]

Float(x) == [Null EXCEPT !.kind = "number", !.nty = "Float", !.n = x]

String(x) == [Null EXCEPT !.kind = "string", !.s = x]

Array(xs) == [Null EXCEPT !.kind = "array", !.items = xs]

Object(f) == [Null EXCEPT !.kind = "object", !.fields = f]

\* Value::as_array / Value::as_object succeed.
is_array(v) == v.kind = "array"

is_object(v) == v.kind = "object"

\* Option<&Value>.
None == <<>>

Some(v) == <<v>>

(***************************************************************************)
(* The inputs: every leaf kind, arrays and objects nested two deep, and a   *)
(* few deeper documents.                                                   *)
(***************************************************************************)
Leaves == {Null, Bool(TRUE), PosInt(1), PosInt(2), Float(1), String("a")}

ArraysOf(S) == {Array(xs) : xs \in UNION {[1..k -> S] : k \in 0..MaxLen}}

ObjectsOf(S) == {Object(f) : f \in UNION {[K -> S] : K \in SUBSET Keys}}

\* What the elements of the input arrays are drawn from.
Elements == {PosInt(1), PosInt(2),
             Array(<<PosInt(1)>>), Object(<<>>), Object([b |-> Bool(TRUE)])}

\* What the field values of the input objects are drawn from.
Members == Elements \cup {Bool(TRUE), Float(1), Object([b |-> PosInt(1)])}

\* The documents of the crate's documentation and of the tests of lib.rs.
User(id, country) ==
    Object([id |-> PosInt(id), country |-> Object([name |-> String(country)])])

Users(us) == Object([data |-> Object([users |-> Array(us)])])

Documents ==
    {Users(<<User(1, "Denmark"), User(24, "Denmark")>>),
     Users(<<User(1, "Sweden"), User(2, "Denmark")>>),
     Object([a |-> Array(<<PosInt(1), Object([b |-> PosInt(2)])>>)]),
     Object([a |-> Array(<<PosInt(1), Object([b |-> PosInt(3)])>>)])}

Values == Leaves \cup ArraysOf(Elements) \cup ObjectsOf(Members) \cup Documents

\* serde_json::to_value failed: the argument has no JSON representation.
ToValueErr == [Null EXCEPT !.kind = "serde error"]

(***************************************************************************)
(* Path, Key, Difference (diff.rs).                                        *)
(***************************************************************************)
Idx(i) == [t |-> "Idx", idx |-> i, field |-> ""]

Field(k) == [t |-> "Field", idx |-> 0, field |-> k]

\* Path::Root is the empty sequence, Path::Keys(list) the list.
Root == <<>>

\* Path::append with the Root arm, Keys(vec![next]), taken for every path.
append_replacing(path, next) == <<next>>

\* Path::append: a copy of the path with next pushed.
append(path, next) == path \o <<next>>

Difference(path, l, r, m) == [path |-> path, lhs |-> l, rhs |-> r, mode |-> m]

Mode == {"Lenient", "Strict"}

\* The orders in which a HashSet holding the keys S can be iterated.
HashSetOrders(S) ==
    {o \in [1..Cardinality(S) -> S] : \A i, j \in DOMAIN o : o[i] = o[j] => i = j}

\* Indexes::indexes: the valid indices of an array, 0-based.
indexes(xs) == {i - 1 : i \in 1..Len(xs)}

\* Vec::get / Map::get.
get_idx(xs, i) == IF i < Len(xs) THEN Some(xs[i + 1]) ELSE None

get_key(f, k) == IF k \in DOMAIN f THEN Some(f[k]) ELSE None

\* Map::keys / Map::iter: the keys of an object in the map's order.
keys(f) == SelectSeq(KeyOrder, LAMBDA k : k \in DOMAIN f)

\* All the concatenations of one list of A and one of B.
Then(A, B) == {x \o y : x \in A, y \in B}

(***************************************************************************)
(* The fold.  Each operator yields the set of lists of differences the     *)
(* code can push onto acc, in the order it pushes them.                    *)
(***************************************************************************)
RECURSIVE diff_with(_, _, _, _)
RECURSIVE lenient_array(_, _, _, _, _)
RECURSIVE lenient_object(_, _, _, _, _)
RECURSIVE strict_array(_, _, _, _)
RECURSIVE strict_object(_, _, _, _)

\* direct_compare! with its test inverted.
direct_compare_inverted(l, r, m, path) ==
    IF r = l THEN {<<Difference(path, Some(l), Some(r), m)>>} ELSE {<<>>}

\* direct_compare! with numbers converted to floating point before the test.
direct_compare_as_float(l, r, m, path) ==
    IF (IF l.kind = "number" /\ r.kind = "number" THEN r.n # l.n ELSE r # l)
    THEN {<<Difference(path, Some(l), Some(r), m)>>}
    ELSE {<<>>}

\* direct_compare!: on_null, on_bool, on_string, on_number.
direct_compare(l, r, m, path) ==
    IF r # l THEN {<<Difference(path, Some(l), Some(r), m)>>} ELSE {<<>>}

\* lenient_array recording a missing element with the sides exchanged:
\* lhs: Some(&self.rhs), rhs: None.
lenient_array_exchanged(l, r, self_rhs, path, idx) ==
    IF idx >= Len(r) THEN {<<>>}
    ELSE LET p == append(path, Idx(idx))
             here == IF get_idx(l, idx) # None
                     THEN diff_with(l[idx + 1], r[idx + 1], "Lenient", p)
                     ELSE {<<Difference(p, Some(self_rhs), None, "Lenient")>>}
         IN  Then(here, lenient_array(l, r, self_rhs, path, idx + 1))

\* lenient_array with `if let Some(lhs) = lhs.get(idx)` and no else arm.
lenient_array_no_else(l, r, self_rhs, path, idx) ==
    IF idx >= Len(r) THEN {<<>>}
    ELSE LET p == append(path, Idx(idx))
             here == IF get_idx(l, idx) # None
                     THEN diff_with(l[idx + 1], r[idx + 1], "Lenient", p)
                     ELSE {<<>>}
         IN  Then(here, lenient_array(l, r, self_rhs, path, idx + 1))

\* The Lenient loop of on_array, from iteration idx on.
lenient_array(l, r, self_rhs, path, idx) ==
    IF idx >= Len(r) THEN {<<>>}
    ELSE LET p == append(path, Idx(idx))
             here == IF get_idx(l, idx) # None
                     THEN diff_with(l[idx + 1], r[idx + 1], "Lenient", p)
                     ELSE {<<Difference(p, None, Some(self_rhs), "Lenient")>>}
         IN  Then(here, lenient_array(l, r, self_rhs, path, idx + 1))

\* lenient_object recording a missing field at self.path, the path of the
\* object, instead of at the path of the field.
lenient_object_self_path(l, r, self_rhs, path, ks) ==
    IF ks = <<>> THEN {<<>>}
    ELSE LET key == Head(ks)
             p == append(path, Field(key))
             here == IF get_key(l, key) # None
                     THEN diff_with(l[key], r[key], "Lenient", p)
                     ELSE {<<Difference(path, None, Some(self_rhs), "Lenient")>>}
         IN  Then(here, lenient_object(l, r, self_rhs, path, Tail(ks)))

\* lenient_object with `if let Some(lhs) = lhs.get(key)` and no else arm:
\* a key of rhs that lhs lacks is passed over.
lenient_object_no_else(l, r, self_rhs, path, ks) ==
    IF ks = <<>> THEN {<<>>}
    ELSE LET key == Head(ks)
             p == append(path, Field(key))
             here == IF get_key(l, key) # None
                     THEN diff_with(l[key], r[key], "Lenient", p)
                     ELSE {<<>>}
         IN  Then(here, lenient_object(l, r, self_rhs, path, Tail(ks)))

\* The Lenient loop of on_object, over the keys ks of rhs still to visit.
lenient_object(l, r, self_rhs, path, ks) ==
    IF ks = <<>> THEN {<<>>}
    ELSE LET key == Head(ks)
             p == append(path, Field(key))
             here == IF get_key(l, key) # None
                     THEN diff_with(l[key], r[key], "Lenient", p)
                     ELSE {<<Difference(p, None, Some(self_rhs), "Lenient")>>}
         IN  Then(here, lenient_object(l, r, self_rhs, path, Tail(ks)))

\* strict_array with the (Some(lhs), None) arm pushing nothing.
strict_array_no_rhs_arm(l, r, path, order) ==
    IF order = <<>> THEN {<<>>}
    ELSE LET key == Head(order)
             p == append(path, Idx(key))
             gl == get_idx(l, key)
             gr == get_idx(r, key)
             here ==
                 IF gl # None /\ gr # None
                 THEN diff_with(gl[1], gr[1], "Strict", p)
                 ELSE IF gl = None /\ gr # None
                 THEN {<<Difference(p, None, Some(gr[1]), "Strict")>>}
                 ELSE {<<>>}
         IN  Then(here, strict_array(l, r, path, Tail(order)))

\* The Strict loop of on_array, over the indices still to visit, in the
\* order the HashSet all_keys yields them.
strict_array(l, r, path, order) ==
    IF order = <<>> THEN {<<>>}
    ELSE LET key == Head(order)
             p == append(path, Idx(key))
             gl == get_idx(l, key)
             gr == get_idx(r, key)
             here ==
                 IF gl # None /\ gr # None
                 THEN diff_with(gl[1], gr[1], "Strict", p)
                 ELSE IF gl = None /\ gr # None
                 THEN {<<Difference(p, None, Some(gr[1]), "Strict")>>}
                 ELSE IF gl # None /\ gr = None
                 THEN {<<Difference(p, Some(gl[1]), None, "Strict")>>}
                 ELSE {}  \* unreachable!: the call panics, no list is returned
         IN  Then(here, strict_array(l, r, path, Tail(order)))

\* strict_object with the (Some(lhs), None) arm a copy of the
\* (None, Some(rhs)) arm: the value is recorded on the wrong side.
strict_object_copied_arm(l, r, path, order) ==
    IF order = <<>> THEN {<<>>}
    ELSE LET key == Head(order)
             p == append(path, Field(key))
             gl == get_key(l, key)
             gr == get_key(r, key)
             here ==
                 IF gl # None /\ gr # None
                 THEN diff_with(gl[1], gr[1], "Strict", p)
                 ELSE IF gl = None /\ gr # None
                 THEN {<<Difference(p, None, Some(gr[1]), "Strict")>>}
                 ELSE {<<Difference(p, None, Some(gl[1]), "Strict")>>}
         IN  Then(here, strict_object(l, r, path, Tail(order)))

\* The Strict loop of on_object, over the field names still to visit, in
\* the order the HashSet all_keys yields them.
strict_object(l, r, path, order) ==
    IF order = <<>> THEN {<<>>}
    ELSE LET key == Head(order)
             p == append(path, Field(key))
             gl == get_key(l, key)
             gr == get_key(r, key)
             here ==
                 IF gl # None /\ gr # None
                 THEN diff_with(gl[1], gr[1], "Strict", p)
                 ELSE IF gl = None /\ gr # None
                 THEN {<<Difference(p, None, Some(gr[1]), "Strict")>>}
                 ELSE IF gl # None /\ gr = None
                 THEN {<<Difference(p, Some(gl[1]), None, "Strict")>>}
                 ELSE {}  \* unreachable!: the call panics, no list is returned
         IN  Then(here, strict_object(l, r, path, Tail(order)))

\* on_array collecting all_keys from rhs alone in Strict mode.
on_array_rhs_keys(l, r, m, path) ==
    IF is_array(r)
    THEN IF m = "Lenient"
         THEN lenient_array(l.items, r.items, r, path, 0)
         ELSE LET all_keys == indexes(r.items)
              IN  UNION {strict_array(l.items, r.items, path, o) :
                         o \in HashSetOrders(all_keys)}
    ELSE {<<Difference(path, Some(l), Some(r), m)>>}

\* on_array with no else arm for an rhs that is not an array.
on_array_no_else(l, r, m, path) ==
    IF is_array(r)
    THEN IF m = "Lenient"
         THEN lenient_array(l.items, r.items, r, path, 0)
         ELSE LET all_keys == indexes(r.items) \cup indexes(l.items)
              IN  UNION {strict_array(l.items, r.items, path, o) :
                         o \in HashSetOrders(all_keys)}
    ELSE {<<>>}

on_array(l, r, m, path) ==
    IF is_array(r)
    THEN IF m = "Lenient"
         THEN lenient_array(l.items, r.items, r, path, 0)
         ELSE LET all_keys == indexes(r.items) \cup indexes(l.items)
              IN  UNION {strict_array(l.items, r.items, path, o) :
                         o \in HashSetOrders(all_keys)}
    ELSE {<<Difference(path, Some(l), Some(r), m)>>}

\* on_object visiting the keys of both sides whatever the mode.
on_object_all_keys(l, r, m, path) ==
    IF is_object(r)
    THEN LET all_keys == DOMAIN r.fields \cup DOMAIN l.fields
         IN  UNION {strict_object(l.fields, r.fields, path, o) :
                    o \in HashSetOrders(all_keys)}
    ELSE {<<Difference(path, Some(l), Some(r), m)>>}

on_object(l, r, m, path) ==
    IF is_object(r)
    THEN IF m = "Lenient"
         THEN lenient_object(l.fields, r.fields, r, path, keys(r.fields))
         ELSE LET all_keys == DOMAIN r.fields \cup DOMAIN l.fields
              IN  UNION {strict_object(l.fields, r.fields, path, o) :
                         o \in HashSetOrders(all_keys)}
    ELSE {<<Difference(path, Some(l), Some(r), m)>>}

\* fold_json: dispatch on the kind of lhs.
fold_json(l, r, m, path) ==
    CASE l.kind = "array" -> on_array(l, r, m, path)
      [] l.kind = "object" -> on_object(l, r, m, path)
      [] OTHER -> direct_compare(l, r, m, path)

diff_with(l, r, m, path) == fold_json(l, r, m, path)

diff(l, r, m) == diff_with(l, r, m, Root)

(***************************************************************************)
(* Display (diff.rs, core_ext.rs).  A text is the sequence of its lines:   *)
(* writeln! ends a line, and joining texts with "\n" puts their lines one  *)
(* after another.                                                          *)
(***************************************************************************)
RECURSIVE Spaces(_)
Spaces(level) == IF level = 0 THEN "" ELSE " " \o Spaces(level - 1)

\* Indent::indent: every line of the text behind level spaces.
indent(text, level) == [i \in 1..Len(text) |-> Spaces(level) \o text[i]]

\* The entries of a pretty-printed array or object: one block of lines
\* each, a comma after every block but the last, two spaces before each line.
RECURSIVE pretty_entries(_)
pretty_entries(blocks) ==
    IF blocks = <<>> THEN <<>>
    ELSE LET blk == Head(blocks)
             closed == IF Len(blocks) > 1
                       THEN [blk EXCEPT ![Len(blk)] = @ \o ","]
                       ELSE blk
         IN  indent(closed, 2) \o pretty_entries(Tail(blocks))

\* serde_json::to_string_pretty.
RECURSIVE to_string_pretty(_)
to_string_pretty(v) ==
    CASE v.kind = "null" -> <<"null">>
      [] v.kind = "bool" -> <<IF v.b THEN "true" ELSE "false">>
      [] v.kind = "number" ->
            <<IF v.nty = "Float" THEN ToString(v.n) \o ".0" ELSE ToString(v.n)>>
      [] v.kind = "string" -> <<"\"" \o v.s \o "\"">>
      [] v.kind = "array" ->
            IF v.items = <<>> THEN <<"[]">>
            ELSE <<"[">>
                 \o pretty_entries([i \in 1..Len(v.items) |->
                                       to_string_pretty(v.items[i])])
                 \o <<"]">>
      [] v.kind = "object" ->
            IF DOMAIN v.fields = {} THEN <<"{}">>
            ELSE LET ks == keys(v.fields)
                 IN  <<"{">>
                     \o pretty_entries([i \in 1..Len(ks) |->
                           LET blk == to_string_pretty(v.fields[ks[i]])
                           IN  [blk EXCEPT ![1] = "\"" \o ks[i] \o "\": " \o @]])
                     \o <<"}">>

\* Key_fmt counting array elements from one.
Key_fmt_from_one(key) ==
    IF key.t = "Idx" THEN "[" \o ToString(key.idx + 1) \o "]" ELSE "." \o key.field

\* impl Display for Key.
Key_fmt(key) ==
    IF key.t = "Idx" THEN "[" \o ToString(key.idx) \o "]" ELSE "." \o key.field

\* impl Display for Path: the loop over the keys of Path::Keys.
RECURSIVE Keys_fmt(_)
Keys_fmt(ks) == IF ks = <<>> THEN "" ELSE Key_fmt(Head(ks)) \o Keys_fmt(Tail(ks))

\* impl Display for Path.
Path_fmt(path) == IF path = Root THEN "(root)" ELSE Keys_fmt(path)

\* What an unreachable! arm leaves instead of a text: the thread panics.
Unreachable == <<"internal error: entered unreachable code">>

\* Difference_fmt with the two values of a Lenient not-equal exchanged:
\* actual shown under expected.
Difference_fmt_exchanged(d) ==
    LET not_equal == "json atoms at path \"" \o Path_fmt(d.path) \o "\" are not equal:"
        missing == "json atom at path \"" \o Path_fmt(d.path) \o "\" is missing from "
    IN  IF d.mode = "Lenient"
        THEN IF d.lhs # None /\ d.rhs # None
             THEN <<not_equal, "    expected:">>
                  \o indent(to_string_pretty(d.lhs[1]), 8)
                  \o <<"    actual:">>
                  \o indent(to_string_pretty(d.rhs[1]), 8)
             ELSE IF d.lhs = None /\ d.rhs # None
             THEN <<missing \o "actual">>
             ELSE Unreachable
        ELSE IF d.lhs # None /\ d.rhs # None
             THEN <<not_equal, "    lhs:">>
                  \o indent(to_string_pretty(d.lhs[1]), 8)
                  \o <<"    rhs:">>
                  \o indent(to_string_pretty(d.rhs[1]), 8)
             ELSE IF d.lhs = None /\ d.rhs # None
             THEN <<missing \o "lhs">>
             ELSE IF d.lhs # None /\ d.rhs = None
             THEN <<missing \o "rhs">>
             ELSE Unreachable

\* impl Display for Difference.
Difference_fmt(d) ==
    LET not_equal == "json atoms at path \"" \o Path_fmt(d.path) \o "\" are not equal:"
        missing == "json atom at path \"" \o Path_fmt(d.path) \o "\" is missing from "
    IN  IF d.mode = "Lenient"
        THEN IF d.lhs # None /\ d.rhs # None
             THEN <<not_equal, "    expected:">>
                  \o indent(to_string_pretty(d.rhs[1]), 8)
                  \o <<"    actual:">>
                  \o indent(to_string_pretty(d.lhs[1]), 8)
             ELSE IF d.lhs = None /\ d.rhs # None
             THEN <<missing \o "actual">>
             ELSE Unreachable
        ELSE IF d.lhs # None /\ d.rhs # None
             THEN <<not_equal, "    lhs:">>
                  \o indent(to_string_pretty(d.lhs[1]), 8)
                  \o <<"    rhs:">>
                  \o indent(to_string_pretty(d.rhs[1]), 8)
             ELSE IF d.lhs = None /\ d.rhs # None
             THEN <<missing \o "lhs">>
             ELSE IF d.lhs # None /\ d.rhs = None
             THEN <<missing \o "rhs">>
             ELSE Unreachable

RECURSIVE join(_)

\* join with "\n" for the separator: no blank line between two texts.
join_newline(texts) ==
    IF texts = <<>> THEN <<>>
    ELSE IF Len(texts) = 1 THEN texts[1]
    ELSE texts[1] \o join(Tail(texts))

\* join("\n\n") of the texts: a blank line between one and the next.
join(texts) ==
    IF texts = <<>> THEN <<>>
    ELSE IF Len(texts) = 1 THEN texts[1]
    ELSE texts[1] \o <<"">> \o join(Tail(texts))

(***************************************************************************)
(* The entry points (lib.rs).  lhs and rhs hold what serde_json::to_value  *)
(* made of the two arguments: a Value, or an error.                        *)
(***************************************************************************)
Init ==
    /\ lhs \in Values \cup {ToValueErr}
    /\ rhs \in Values \cup {ToValueErr}
    /\ mode = "Lenient"
    /\ acc = <<>>
    /\ result = "None"
    /\ message = <<>>
    /\ panic = ""
    /\ pc = "start"

\* The call panics with msg and returns nothing.
Panics(msg) ==
    /\ panic' = msg
    /\ pc' = "panicked"
    /\ UNCHANGED <<acc, result, message>>

\* The call returns Ok(()) or Err(msg) for the differences found.
Returns(diffs) ==
    LET texts == [i \in 1..Len(diffs) |-> Difference_fmt(diffs[i])]
    IN  IF \E i \in 1..Len(diffs) : texts[i] = Unreachable
        THEN Panics(Unreachable[1])
        ELSE /\ acc' = diffs
             /\ result' = IF diffs = <<>> THEN "Ok" ELSE "Err"
             /\ message' = IF diffs = <<>> THEN <<>> ELSE join(texts)
             /\ pc' = "done"
             /\ UNCHANGED panic

\* assert_json_no_panic converting and checking rhs before lhs.
assert_json_no_panic_rhs_first(m) ==
    /\ pc = "start"
    /\ IF rhs = ToValueErr
       THEN Panics("Couldn't convert right hand side value to JSON. Serde error")
       ELSE IF lhs = ToValueErr
       THEN Panics("Couldn't convert left hand side value to JSON. Serde error")
       ELSE IF diff(lhs, rhs, m) = {}
       THEN Panics(Unreachable[1])
       ELSE \E diffs \in diff(lhs, rhs, m) : Returns(diffs)
    /\ mode' = m
    /\ UNCHANGED <<lhs, rhs>>

\* assert_json_no_panic: both conversions, then diff and the message.
assert_json_no_panic(m) ==
    /\ pc = "start"
    /\ IF lhs = ToValueErr
       THEN Panics("Couldn't convert left hand side value to JSON. Serde error")
       ELSE IF rhs = ToValueErr
       THEN Panics("Couldn't convert right hand side value to JSON. Serde error")
       ELSE IF diff(lhs, rhs, m) = {}
       THEN Panics(Unreachable[1])
       ELSE \E diffs \in diff(lhs, rhs, m) : Returns(diffs)
    /\ mode' = m
    /\ UNCHANGED <<lhs, rhs>>

assert_json_include_no_panic == assert_json_no_panic("Lenient")

assert_json_eq_no_panic == assert_json_no_panic("Strict")

Next == assert_json_include_no_panic \/ assert_json_eq_no_panic

Spec == Init /\ [][Next]_vars

(***************************************************************************)
(* What the properties below are stated in: the locations of a value, the  *)
(* value at a location, and the differences a call reported at or below a  *)
(* location.                                                               *)
(***************************************************************************)
Range(q) == {q[i] : i \in DOMAIN q}

IsPrefix(p, q) == Len(p) <= Len(q) /\ SubSeq(q, 1, Len(p)) = p

IsProperPrefix(p, q) == Len(p) < Len(q) /\ SubSeq(q, 1, Len(p)) = p

\* The value of v at path, if v has one there.
RECURSIVE ValueAt(_, _)
ValueAt(v, path) ==
    IF path = <<>> THEN Some(v)
    ELSE LET k == Head(path)
         IN  IF k.t = "Idx"
             THEN IF is_array(v) /\ k.idx < Len(v.items)
                  THEN ValueAt(v.items[k.idx + 1], Tail(path))
                  ELSE None
             ELSE IF is_object(v) /\ k.field \in DOMAIN v.fields
                  THEN ValueAt(v.fields[k.field], Tail(path))
                  ELSE None

\* The paths at which v has a value.
RECURSIVE Locations(_)
Locations(v) ==
    {<<>>} \cup
    (IF is_array(v)
     THEN UNION {{<<Idx(i)>> \o p : p \in Locations(v.items[i + 1])} :
                 i \in indexes(v.items)}
     ELSE IF is_object(v)
     THEN UNION {{<<Field(k)>> \o p : p \in Locations(v.fields[k])} :
                 k \in DOMAIN v.fields}
     ELSE {})

\* The paths at which both inputs have a value: the pairs the fold visits
\* are among them.
Both == Locations(lhs) \cap Locations(rhs)

L(p) == ValueAt(lhs, p)[1]

R(p) == ValueAt(rhs, p)[1]

\* The reported differences at p, and those strictly below p.
At(p) == {i \in DOMAIN acc : acc[i].path = p}

Below(p) == {i \in DOMAIN acc : IsProperPrefix(p, acc[i].path)}

\* The reported differences at or below p, in the order reported.
Under(p) == SelectSeq(acc, LAMBDA d : IsPrefix(p, d.path))

Done == pc = "done"

\* Structural equality of two values, kind by kind.
RECURSIVE StructEq(_, _)
StructEq(a, b) ==
    /\ a.kind = b.kind
    /\ CASE a.kind = "null" -> TRUE
         [] a.kind = "bool" -> a.b = b.b
         [] a.kind = "number" -> a.nty = b.nty /\ a.n = b.n
         [] a.kind = "string" -> a.s = b.s
         [] a.kind = "array" ->
                /\ Len(a.items) = Len(b.items)
                /\ \A i \in 1..Len(a.items) : StructEq(a.items[i], b.items[i])
         [] a.kind = "object" ->
                /\ DOMAIN a.fields = DOMAIN b.fields
                /\ \A k \in DOMAIN a.fields : StructEq(a.fields[k], b.fields[k])

(***************************************************************************)
(* C1.  Reflexivity: comparing a value with itself, in Lenient or in       *)
(* Strict mode, returns no difference.                                     *)
(***************************************************************************)
C1_Reflexivity == (Done /\ lhs = rhs) => acc = <<>>

\* A nested object was compared with itself in Strict mode, and a nested
\* array in Lenient mode.
C1_Witness ==
    /\ Done
    /\ lhs = rhs
    /\ \/ mode = "Strict" /\ lhs = Object([a |-> Object([b |-> PosInt(1)]), b |-> Float(1)])
       \/ mode = "Lenient" /\ lhs = Array(<<Array(<<PosInt(1)>>), PosInt(2)>>)

(***************************************************************************)
(* C2.  Exact matching: a Strict comparison returns no difference exactly  *)
(* when the two values are structurally equal, and then, and only then,    *)
(* assert_json_eq_no_panic returns Ok.                                     *)
(***************************************************************************)
C2_ExactMatching ==
    (Done /\ mode = "Strict") =>
        /\ (acc = <<>>) <=> StructEq(lhs, rhs)
        /\ (result = "Ok") <=> StructEq(lhs, rhs)

\* A Strict comparison of two arrays that agree on their common prefix and
\* differ in length returned Err.
C2_Witness ==
    /\ Done
    /\ mode = "Strict"
    /\ lhs = Array(<<PosInt(1), PosInt(2)>>)
    /\ rhs = Array(<<PosInt(1)>>)
    /\ result = "Err"

(***************************************************************************)
(* C3.  Strict symmetry: the differences of diff(b, a, Strict) are those   *)
(* of diff(a, b, Strict) with the two sides exchanged: the same paths, a   *)
(* not-equal (x, y) for a not-equal (y, x), a missing-from-rhs for a       *)
(* missing-from-lhs.                                                       *)
(***************************************************************************)
Swapped(d) == [d EXCEPT !.lhs = d.rhs, !.rhs = d.lhs]

C3_StrictSymmetry ==
    (Done /\ mode = "Strict") =>
        \A other \in diff(rhs, lhs, "Strict") :
            /\ {d.path : d \in Range(other)} = {d.path : d \in Range(acc)}
            /\ Range(other) = {Swapped(d) : d \in Range(acc)}
            /\ Len(other) = Len(acc)

\* A Strict comparison reported a nested key missing from rhs together with
\* an unequal pair: the exchanged call reports it missing from lhs.
C3_Witness ==
    /\ Done
    /\ mode = "Strict"
    /\ Len(acc) = 2
    /\ \E i, k \in DOMAIN acc :
         /\ acc[i].rhs = None /\ Len(acc[i].path) = 2
         /\ acc[k].lhs # None /\ acc[k].rhs # None

(***************************************************************************)
(* C4.  Inclusive superset tolerance: in Lenient mode only the keys of rhs *)
(* are visited where both sides are objects, so a key that only lhs has    *)
(* never produces a difference: every field a difference's path goes       *)
(* through is a field of rhs there, and the call reports what it reports   *)
(* for lhs with the keys only it has removed.                              *)
(***************************************************************************)
\* a, without the fields and elements that b has no counterpart for.
RECURSIVE Pruned(_, _)
Pruned(a, b) ==
    IF is_object(a) /\ is_object(b)
    THEN Object([k \in DOMAIN a.fields \cap DOMAIN b.fields |->
                    Pruned(a.fields[k], b.fields[k])])
    ELSE IF is_array(a) /\ is_array(b)
    THEN Array([i \in 1..Len(a.items) |->
                   IF i <= Len(b.items) THEN Pruned(a.items[i], b.items[i])
                   ELSE a.items[i]])
    ELSE a

C4_SupersetTolerance ==
    (Done /\ mode = "Lenient") =>
        /\ \A d \in Range(acc) : \A j \in 1..Len(d.path) :
              LET p == SubSeq(d.path, 1, j - 1)
              IN  (d.path[j].t = "Field" /\ p \in Both
                      /\ is_object(L(p)) /\ is_object(R(p)))
                  => d.path[j].field \in DOMAIN R(p).fields
        /\ acc \in diff(Pruned(lhs, rhs), rhs, "Lenient")
        /\ (lhs = Object([a |-> PosInt(1), b |-> PosInt(2)])
              /\ rhs = Object([a |-> PosInt(1)])) => acc = <<>>
        /\ (lhs = Object([a |-> Object([b |-> Bool(TRUE)])])
              /\ rhs = Object([a |-> Object(<<>>)])) => acc = <<>>

\* A Lenient comparison in which lhs has a key of its own at the root and
\* another one level down.
C4_Witness ==
    /\ Done
    /\ mode = "Lenient"
    /\ lhs = Object([a |-> Object([b |-> Bool(TRUE)]), b |-> PosInt(2)])
    /\ rhs = Object([a |-> Object(<<>>)])
    /\ acc = <<>>

(***************************************************************************)
(* C5.  Inclusive missing-field detection: in Lenient mode, where both     *)
(* sides are objects at a path p, each key k of rhs that lhs lacks yields  *)
(* exactly one difference at p.k, with the lhs side absent and the rhs     *)
(* side present (the one Display renders as missing from actual), and      *)
(* nothing below p.k.                                                      *)
(***************************************************************************)
C5_MissingField ==
    (Done /\ mode = "Lenient") =>
        /\ \A p \in Both :
              (is_object(L(p)) /\ is_object(R(p))) =>
                  \A k \in DOMAIN R(p).fields \ DOMAIN L(p).fields :
                      LET q == p \o <<Field(k)>>
                      IN  /\ Cardinality(At(q)) = 1
                          /\ \A i \in At(q) :
                                /\ acc[i].lhs = None
                                /\ acc[i].rhs # None
                                /\ acc[i].mode = "Lenient"
                          /\ Below(q) = {}
        /\ (lhs = Object(<<>>) /\ rhs = Object([a |-> PosInt(1)])) =>
              /\ Len(acc) = 1
              /\ acc[1].path = <<Field("a")>>
              /\ acc[1].lhs = None
        /\ (lhs = Object([a |-> Object(<<>>)])
              /\ rhs = Object([a |-> Object([b |-> PosInt(1)])])) =>
              /\ Len(acc) = 1
              /\ acc[1].path = <<Field("a"), Field("b")>>
              /\ acc[1].lhs = None

\* Actual {a: {}} against expected {a: {b: 1}, b: ..}: a field is missing
\* one level down and another at the root.
C5_Witness ==
    /\ Done
    /\ mode = "Lenient"
    /\ lhs = Object([a |-> Object(<<>>)])
    /\ rhs = Object([a |-> Object([b |-> PosInt(1)]), b |-> Object([b |-> PosInt(1)])])
    /\ Len(acc) = 2
    /\ acc[1].path = <<Field("a"), Field("b")>> /\ acc[1].lhs = None
    /\ acc[2].path = <<Field("b")>> /\ acc[2].lhs = None

(***************************************************************************)
(* C6.  Inclusive arrays are compared by position over the indices of rhs: *)
(* in Lenient mode, where both sides are arrays at a path p, for each      *)
(* i < len(rhs) the differences at or below p[i] are those of comparing    *)
(* lhs[i] with rhs[i] at p[i] in Lenient mode if i < len(lhs), and         *)
(* otherwise one difference at p[i] with the lhs side absent; the elements *)
(* of lhs from len(rhs) on yield no difference.                            *)
(***************************************************************************)
C6_LenientArrays ==
    (Done /\ mode = "Lenient") =>
        /\ \A p \in Both :
              (is_array(L(p)) /\ is_array(R(p))) =>
                  /\ \A i \in 0..(Len(R(p).items) - 1) :
                        LET q == p \o <<Idx(i)>>
                        IN  IF i < Len(L(p).items)
                            THEN Under(q) \in
                                   diff_with(L(p).items[i + 1], R(p).items[i + 1],
                                             "Lenient", q)
                            ELSE /\ Cardinality(At(q)) = 1
                                 /\ \A j \in At(q) :
                                       acc[j].lhs = None /\ acc[j].rhs # None
                                 /\ Below(q) = {}
                  /\ \A i \in Len(R(p).items)..(Len(L(p).items) - 1) :
                        Under(p \o <<Idx(i)>>) = <<>>
        /\ (lhs = Array(<<PosInt(1), PosInt(2)>>) /\ rhs = Array(<<PosInt(1)>>))
              => acc = <<>>
        /\ (lhs = Array(<<PosInt(1)>>) /\ rhs = Array(<<PosInt(1), PosInt(2)>>))
              => /\ Len(acc) = 1
                 /\ acc[1].path = <<Idx(1)>>

\* A Lenient comparison of [[1]] against [1, 2]: the first elements are
\* compared, the second is missing from lhs.
C6_Witness ==
    /\ Done
    /\ mode = "Lenient"
    /\ lhs = Array(<<Array(<<PosInt(1)>>)>>)
    /\ rhs = Array(<<PosInt(1), PosInt(2)>>)
    /\ Len(acc) = 2
    /\ acc[1].path = <<Idx(0)>> /\ acc[1].lhs # None
    /\ acc[2].path = <<Idx(1)>> /\ acc[2].lhs = None

(***************************************************************************)
(* C7.  Strict composites reconcile the union of keys: in Strict mode,     *)
(* where both sides are arrays (or both objects) at a path p, each index   *)
(* (field name) that only one side has yields exactly one difference at    *)
(* p[i] (p.k), the side lacking it absent and the other side holding its   *)
(* element, and nothing below; each index (field name) both sides have     *)
(* contributes the differences of comparing the two elements there; so     *)
(* arrays of lengths m and n yield |m - n| missing differences.            *)
(***************************************************************************)
\* What a Strict call must have reported for the key at q = p[i] or p.k,
\* gl and gr being the elements of lhs and rhs there, if any.
StrictKeyOk(q, gl, gr) ==
    IF gl # None /\ gr # None
    THEN Under(q) \in diff_with(gl[1], gr[1], "Strict", q)
    ELSE /\ Cardinality(At(q)) = 1
         /\ \A j \in At(q) : acc[j].lhs = gl /\ acc[j].rhs = gr
         /\ Below(q) = {}

\* The differences reported for the children of p with one side absent.
MissingAt(p) ==
    {j \in DOMAIN acc : /\ Len(acc[j].path) = Len(p) + 1
                        /\ IsPrefix(p, acc[j].path)
                        /\ (acc[j].lhs = None \/ acc[j].rhs = None)}

Abs(x) == IF x < 0 THEN 0 - x ELSE x

C7_StrictUnion ==
    (Done /\ mode = "Strict") =>
        \A p \in Both :
            /\ (is_array(L(p)) /\ is_array(R(p))) =>
                  LET ls == L(p).items
                      rs == R(p).items
                  IN  /\ \A i \in 0..(Len(ls) - 1) \cup 0..(Len(rs) - 1) :
                            StrictKeyOk(p \o <<Idx(i)>>,
                                        IF i < Len(ls) THEN <<ls[i + 1]>> ELSE <<>>,
                                        IF i < Len(rs) THEN <<rs[i + 1]>> ELSE <<>>)
                      /\ Cardinality(MissingAt(p)) = Abs(Len(ls) - Len(rs))
            /\ (is_object(L(p)) /\ is_object(R(p))) =>
                  LET lf == L(p).fields
                      rf == R(p).fields
                  IN  \A k \in DOMAIN lf \cup DOMAIN rf :
                          StrictKeyOk(p \o <<Field(k)>>,
                                      IF k \in DOMAIN lf THEN <<lf[k]>> ELSE <<>>,
                                      IF k \in DOMAIN rf THEN <<rf[k]>> ELSE <<>>)

\* A Strict comparison of [2, [1]] against [1]: index 0 is compared, index
\* 1 is missing from rhs.
C7_Witness ==
    /\ Done
    /\ mode = "Strict"
    /\ lhs = Array(<<PosInt(2), Array(<<PosInt(1)>>)>>)
    /\ rhs = Array(<<PosInt(1)>>)
    /\ Len(acc) = 2
    /\ \E j \in DOMAIN acc :
         /\ acc[j].path = <<Idx(1)>>
         /\ acc[j].lhs = Some(Array(<<PosInt(1)>>))
         /\ acc[j].rhs = None

C9_NumericStrictness ==
    (Done /\ lhs.kind = "number" /\ rhs.kind = "number" /\ lhs.n = rhs.n) =>
        IF lhs.nty = rhs.nty
        THEN acc = <<>>
        ELSE acc = <<Difference(Root, Some(lhs), Some(rhs), mode)>>

\* 1.0 was compared with 1 and one difference came back.
C9_Witness ==
    /\ Done
    /\ lhs = Float(1)
    /\ rhs = PosInt(1)
    /\ Len(acc) = 1
    /\ result = "Err"

Embeddings(a, b, m) ==
    {f \in [1..Len(b) -> 1..Len(a)] :
        /\ \A i, j \in 1..Len(b) : f[i] = f[j] => i = j
        /\ \A i \in 1..Len(b) : <<>> \in diff(a[f[i]], b[i], m)}

RECURSIVE Components(_)
Components(p) ==
    IF p = <<>> THEN ""
    ELSE LET k == p[Len(p)]
         IN  Components(SubSeq(p, 1, Len(p) - 1))
             \o (IF k.t = "Field" THEN "." \o k.field
                 ELSE "[" \o ToString(k.idx) \o "]")

Rendered(p) == IF Len(p) = 0 THEN "(root)" ELSE Components(p)

DocActual == Users(<<User(1, "Denmark"), User(24, "Denmark")>>)

DocExpected == Users(<<User(1, "Sweden"), User(2, "Denmark")>>)

C12_PathRendering ==
    Done =>
        /\ \A d \in Range(acc) :
              /\ (d.lhs = None) <=> (ValueAt(lhs, d.path) = None)
              /\ (d.rhs = None) <=> (ValueAt(rhs, d.path) = None)
              /\ d.lhs # None => d.lhs = ValueAt(lhs, d.path)
              /\ Path_fmt(d.path) = Rendered(d.path)
        /\ (lhs = DocActual /\ rhs = DocExpected) =>
              \E i \in DOMAIN acc :
                  /\ acc[i].path = <<Field("data"), Field("users"), Idx(1), Field("id")>>
                  /\ Path_fmt(acc[i].path) = ".data.users[1].id"
        /\ (lhs = PosInt(1) /\ rhs = PosInt(2)) => Path_fmt(acc[1].path) = "(root)"

\* The documents of the crate's documentation were compared and the second
\* difference of the message is headed by the path .data.users[1].id.
C12_Witness ==
    /\ Done
    /\ mode = "Lenient"
    /\ lhs = DocActual
    /\ rhs = DocExpected
    /\ Len(acc) = 2
    /\ message[1] = "json atoms at path \".data.users[0].country.name\" are not equal:"
    /\ message[7] = "json atoms at path \".data.users[1].id\" are not equal:"

(***************************************************************************)
(* C13.  Determinism: for given lhs, rhs and mode every call of diff       *)
(* returns the same list of differences in the same order, and so the same *)
(* message: the list this call returned is the only one diff can return,   *)
(* in Strict mode too when several keys of one array or object differ.     *)
(***************************************************************************)
C13_Determinism ==
    Done => \A other \in diff(lhs, rhs, mode) : other = acc

(***************************************************************************)
(* C14.  Result and message assembly: the call returns Ok exactly when     *)
(* diff found no difference, and otherwise Err with a message made of the  *)
(* renderings of the differences, in the order of the list, one blank line *)
(* between each and the next and none before the first or after the last.  *)
(***************************************************************************)
\* The renderings of the differences ds, one text for each, in order.
RECURSIVE Renderings(_)
Renderings(ds) ==
    IF ds = <<>> THEN <<>>
    ELSE <<Difference_fmt(Head(ds))>> \o Renderings(Tail(ds))

\* The line of a message at which text i of texts starts, every text before
\* it being followed by one blank line.
RECURSIVE BlockStart(_, _)
BlockStart(texts, i) ==
    IF i = 1 THEN 1
    ELSE BlockStart(texts, i - 1) + Len(texts[i - 1]) + 1

\* The lines of the message that text i of texts should fill.
Block(texts, i) ==
    SubSeq(message, BlockStart(texts, i),
           BlockStart(texts, i) + Len(texts[i]) - 1)

C14_MessageAssembly ==
    Done =>
        /\ result \in {"Ok", "Err"}
        /\ (result = "Ok") <=> (acc = <<>>)
        /\ result = "Ok" => message = <<>>
        /\ result = "Err" =>
              LET texts == Renderings(acc)
              IN  /\ Len(message) = BlockStart(texts, Len(acc) + 1) - 2
                  /\ \A i \in DOMAIN acc :
                        /\ Block(texts, i) = texts[i]
                        /\ i > 1 => message[BlockStart(texts, i) - 1] = ""
                        /\ \A j \in DOMAIN texts[i] : texts[i][j] # ""
        /\ (lhs = DocActual /\ rhs = DocExpected /\ mode = "Lenient") =>
              message =
                <<"json atoms at path \".data.users[0].country.name\" are not equal:",
                  "    expected:",
                  "        \"Sweden\"",
                  "    actual:",
                  "        \"Denmark\"",
                  "",
                  "json atoms at path \".data.users[1].id\" are not equal:",
                  "    expected:",
                  "        2",
                  "    actual:",
                  "        24">>

\* A Lenient call returned Err for two differences, a missing field and
\* then an unequal pair, with one blank line between the two renderings.
C14_Witness ==
    /\ Done
    /\ mode = "Lenient"
    /\ result = "Err"
    /\ Len(acc) = 2
    /\ acc[1].lhs = None
    /\ acc[2].lhs # None
    /\ Len(message) = 7
    /\ message[2] = ""

(***************************************************************************)
(* C15.  Difference labelling: in the message a not-equal difference is    *)
(* the line json atoms at path "<path>" are not equal: followed in Lenient *)
(* mode by expected: with the rhs value and then actual: with the lhs      *)
(* value, and in Strict mode by lhs: with the lhs value and then rhs: with *)
(* the rhs value; a missing difference is the single line naming the path  *)
(* and the side that lacks it: actual in Lenient mode, lhs or rhs in       *)
(* Strict mode.                                                            *)
(***************************************************************************)
\* A value as the message shows it: pretty-printed, behind eight spaces.
RECURSIVE Behind8(_)
Behind8(lines) ==
    IF lines = <<>> THEN <<>>
    ELSE <<"        " \o Head(lines)>> \o Behind8(Tail(lines))

Shown(v) == Behind8(to_string_pretty(v))

Labelled(d) ==
    LET at == "path \"" \o Rendered(d.path) \o "\""
    IN  IF d.lhs # None /\ d.rhs # None
        THEN IF d.mode = "Lenient"
             THEN <<"json atoms at " \o at \o " are not equal:">>
                  \o <<"    expected:">> \o Shown(d.rhs[1])
                  \o <<"    actual:">> \o Shown(d.lhs[1])
             ELSE <<"json atoms at " \o at \o " are not equal:">>
                  \o <<"    lhs:">> \o Shown(d.lhs[1])
                  \o <<"    rhs:">> \o Shown(d.rhs[1])
        ELSE <<"json atom at " \o at \o " is missing from "
               \o (IF d.mode = "Lenient" THEN "actual"
                   ELSE IF d.lhs = None THEN "lhs" ELSE "rhs")>>

\* The labelled texts of the differences ds, in order.
RECURSIVE Labellings(_)
Labellings(ds) ==
    IF ds = <<>> THEN <<>>
    ELSE <<Labelled(Head(ds))>> \o Labellings(Tail(ds))

C16_DocumentedMessage ==
    (Done /\ mode = "Strict"
        /\ lhs = Object([a |-> Object([b |-> PosInt(1)])])
        /\ rhs = Object([a |-> Object(<<>>)])) =>
        /\ result = "Err"
        /\ message = <<"json atom at path \".a.b\" is missing from lhs">>

C18_WellFormed ==
    /\ panic # Unreachable[1]
    /\ pc = "panicked" => (lhs = ToValueErr \/ rhs = ToValueErr)
    /\ Done => \A i \in DOMAIN acc :
          /\ ~(acc[i].lhs = None /\ acc[i].rhs = None)
          /\ mode = "Lenient" => acc[i].rhs # None

\* A Lenient call returned an element missing from the actual array, with
\* its rhs side present.
C18_Witness ==
    /\ Done
    /\ mode = "Lenient"
    /\ is_array(lhs)
    /\ is_array(rhs)
    /\ \E i \in DOMAIN acc :
          /\ acc[i].lhs = None
          /\ acc[i].rhs = Some(rhs)
          /\ acc[i].path = <<Idx(Len(lhs.items))>>

(***************************************************************************)
(* C19.  One difference per location: in both modes the paths of the       *)
(* differences one diff call returns are pairwise distinct, and none is a  *)
(* proper prefix of another: nothing beneath a reported location is        *)
(* reported.                                                               *)
(***************************************************************************)
C19_OnePerLocation ==
    Done => \A i, j \in DOMAIN acc :
        i # j =>
            /\ acc[i].path # acc[j].path
            /\ ~IsProperPrefix(acc[i].path, acc[j].path)

\* Two differences whose paths end in the same key, one of them nested.
C19_Witness ==
    /\ Done
    /\ Len(acc) = 2
    /\ \E i, j \in DOMAIN acc :
          /\ acc[i].path = <<Field("a"), Field("b")>>
          /\ acc[j].path = <<Field("b")>>

(***************************************************************************)
(* C20.  Inclusive is weaker than Strict: every path at which Lenient diff *)
(* reports a difference is a path at which Strict diff of the same values  *)
(* reports a difference of the same shape (not equal, or missing from      *)
(* lhs); so when assert_json_eq_no_panic returns Ok,                       *)
(* assert_json_include_no_panic returns Ok too.                            *)
(***************************************************************************)
SameShape(d, e) ==
    /\ (d.lhs = None) <=> (e.lhs = None)
    /\ (d.rhs = None) <=> (e.rhs = None)

\* Every difference of the list ls has its like, at the same path, in ss.
Covered(ls, ss) ==
    \A i \in DOMAIN ls : \E j \in DOMAIN ss :
        /\ ss[j].path = ls[i].path
        /\ SameShape(ls[i], ss[j])

C20_InclusiveWeaker ==
    /\ (Done /\ mode = "Lenient") =>
          \A ss \in diff(lhs, rhs, "Strict") : Covered(acc, ss)
    /\ (Done /\ mode = "Strict") =>
          /\ \A ls \in diff(lhs, rhs, "Lenient") : Covered(ls, acc)
          /\ result = "Ok" => diff(lhs, rhs, "Lenient") = {<<>>}

\* A Lenient call found one key missing from lhs where the Strict call
\* finds that difference and a second one, a key missing from rhs.
C20_Witness ==
    /\ Done
    /\ mode = "Lenient"
    /\ Len(acc) = 1
    /\ acc[1].lhs = None
    /\ \E ss \in diff(lhs, rhs, "Strict") :
          /\ Len(ss) = 2
          /\ \E k \in DOMAIN ss : ss[k].rhs = None
          /\ \E k \in DOMAIN ss :
                ss[k].lhs = None /\ ss[k].path = acc[1].path

(***************************************************************************)
(* C21.  Inclusion is transitive: for all JSON values a, b and c, when     *)
(* diff(a, b, Lenient) is empty (b is included in a) and                   *)
(* diff(b, c, Lenient) is empty (c is included in b), diff(a, c, Lenient)  *)
(* is empty as well.                                                       *)
(***************************************************************************)
\* expected is included in actual: Lenient diff finds no difference.
Includes(actual, expected) == diff(actual, expected, "Lenient") = {<<>>}

\* Here a is lhs and b is rhs, the Lenient call on them having returned
\* Ok, and c ranges over all the values.
C21_InclusionTransitive ==
    (Done /\ mode = "Lenient" /\ result = "Ok") =>
        /\ Includes(lhs, rhs)
        /\ \A c \in Values : Includes(rhs, c) => Includes(lhs, c)

\* A chain of three different values, each included in the one before:
\* {"a": {"b": true}, "b": 1}, {"a": {"b": true}} and {"a": {}}.
C21_Witness ==
    /\ Done
    /\ mode = "Lenient"
    /\ result = "Ok"
    /\ lhs = Object([a |-> Object([b |-> Bool(TRUE)]), b |-> PosInt(1)])
    /\ rhs = Object([a |-> Object([b |-> Bool(TRUE)])])
    /\ Object([a |-> Object(<<>>)]) \in Values
    /\ Includes(rhs, Object([a |-> Object(<<>>)]))
    /\ Includes(lhs, Object([a |-> Object(<<>>)]))
    /\ ~Includes(rhs, lhs)
    /\ ~Includes(Object([a |-> Object(<<>>)]), rhs)

====
